---- MODULE Spec2Model ----
(***************************************************************************)
(* Model of src/inventory_system.py: one module-level dict, stock_data,    *)
(* one JSON file, and the functions load_data, save_data, add_item,        *)
(* remove_item, get_qty, check_low_items and print_data.                   *)
(*                                                                         *)
(* A Python dict is an insertion-ordered sequence of key/value entries     *)
(* with unique keys.  A value is a record [t, n]: t = "int" is the Python  *)
(* int n, t = "str" is a text value (json.load can deliver one).           *)
(* json.load can also deliver a non-dict (a JSON array), kind = "list".    *)
(* All calls use the default file_path, INVENTORY_FILE.                    *)
(***************************************************************************)
EXTENDS Integers, Sequences, FiniteSets, TLC

\* Largest quantity stored or requested (caps the otherwise unbounded ints).
MaxQty == 2

\* ---------------------------------------------------------------- values

IntV(n) == [t |-> "int", n |-> n]

StrV == [t |-> "str", n |-> 0]

Keys == {"apple", "kiwi"}

\* item arguments: two valid names, the empty name, and a non-str (123)
ItemArg(name) == [str |-> TRUE, name |-> name]

ItemArgs ==
  {ItemArg(k) : k \in Keys} \cup {ItemArg(""), [str |-> FALSE, name |-> "123"]}

\* qty arguments.  "int": the int n.  "intstr": the decimal text of n ("7").
\* "text": non-numeric text ("ten").  "none": None.  "float": the float
\* n/10 (27 is 2.7).  "inf": float('inf').
QtyArgs ==
  [t : {"int"}, n : (0 - MaxQty)..MaxQty]
    \cup {[t |-> "intstr", n |-> 1]}
    \cup {[t |-> "text", n |-> 0], [t |-> "none", n |-> 0], [t |-> "inf", n |-> 0]}
    \cup [t : {"float"}, n : {27, 5, -15}]

Thresholds == (0 - 1)..(MaxQty + 1)

EmptyDict == [kind |-> "dict", items |-> <<>>]

ListValue == [kind |-> "list", items |-> <<>>]

\* ------------------------------------------------------------- dict ops

HasKey(items, k) == \E i \in 1..Len(items) : items[i].k = k

ValueOf(items, k) == items[CHOOSE i \in 1..Len(items) : items[i].k = k].v

SetKey(items, k, v) ==
  IF HasKey(items, k)
  THEN [i \in 1..Len(items) |->
          IF items[i].k = k THEN [k |-> k, v |-> v] ELSE items[i]]
  ELSE Append(items, [k |-> k, v |-> v])

DelKey(items, k) == SelectSeq(items, LAMBDA e : e.k # k)

\* ------------------------------------------------------------ int(qty)

Trunc(tenths) ==
  IF tenths >= 0 THEN tenths \div 10 ELSE 0 - ((0 - tenths) \div 10)

IntCoerce(qty) ==
  CASE qty.t = "int"    -> [exc |-> "none", v |-> qty.n]
    [] qty.t = "intstr" -> [exc |-> "none", v |-> qty.n]
    [] qty.t = "float"  -> [exc |-> "none", v |-> Trunc(qty.n)]
    [] qty.t = "text"   -> [exc |-> "ValueError", v |-> 0]
    [] qty.t = "none"   -> [exc |-> "TypeError", v |-> 0]
    [] qty.t = "inf"    -> [exc |-> "OverflowError", v |-> 0]

Min(a, b) == IF a < b THEN a ELSE b

\* ------------------------------------------------------------ JSON codec

ArrayDoc == [kind |-> "array", pairs |-> <<>>]

ObjectDoc(pairs) == [kind |-> "object", pairs |-> pairs]

RECURSIVE BuildDict(_, _)
BuildDict(pairs, acc) ==
  IF pairs = <<>> THEN acc
  ELSE BuildDict(Tail(pairs), SetKey(acc, Head(pairs).k, Head(pairs).v))

JsonLoad(doc) ==
  IF doc.kind = "array" THEN ListValue
  ELSE [kind |-> "dict", items |-> BuildDict(doc.pairs, <<>>)]

JsonDump(sd) ==
  IF sd.kind = "list" THEN ArrayDoc ELSE ObjectDoc(sd.items)

\* ----------------------------------------------------------------- file

MissingFile == [st |-> "missing", doc |-> ObjectDoc(<<>>)]

CorruptFile == [st |-> "corrupt", doc |-> ObjectDoc(<<>>)]

OkFile(doc) == [st |-> "ok", doc |-> doc]

P(k, v) == [k |-> k, v |-> v]

InitDocs ==
  { ArrayDoc,
    ObjectDoc(<<>>),
    ObjectDoc(<<P("apple", IntV(0))>>),
    ObjectDoc(<<P("apple", IntV(0 - 1))>>),
    ObjectDoc(<<P("apple", StrV)>>),
    ObjectDoc(<<P("apple", IntV(1)), P("apple", IntV(2))>>),
    ObjectDoc(<<P("kiwi", IntV(1)), P("apple", IntV(2))>>) }

InitFiles == {MissingFile, CorruptFile} \cup {OkFile(d) : d \in InitDocs}

\* ------------------------------------------------------- the functions

Ret(sd, raised) == [sd |-> sd, raised |-> raised]

\* load_data: the new value of stock_data.  io = "fail" is any other I/O
\* failure of open/read (permissions, undecodable bytes, ...).
LoadDataKeep(sd, f, io) ==
  IF io = "fail" THEN EmptyDict
  ELSE IF f.st = "missing" THEN EmptyDict
  ELSE IF f.st = "corrupt" THEN sd
  ELSE JsonLoad(f.doc)

LoadData(sd, f, io) ==
  IF io = "fail" THEN EmptyDict
  ELSE IF f.st = "missing" THEN EmptyDict
  ELSE IF f.st = "corrupt" THEN EmptyDict
  ELSE JsonLoad(f.doc)

\* save_data: the new content of the file.  open(.., "w") truncates, so a
\* failure after open leaves a file that is not valid JSON.
SaveDataNoWrite(sd, f, io) ==
  IF io = "open_fail" THEN f
  ELSE IF io = "write_fail" THEN CorruptFile
  ELSE f

SaveData(sd, f, io) ==
  IF io = "open_fail" THEN f
  ELSE IF io = "write_fail" THEN CorruptFile
  ELSE OkFile(JsonDump(sd))

RemoveItemNoClamp(sd, item, qty) ==
  IF ~item.str \/ item.name = "" THEN Ret(sd, "none")
  ELSE LET c == IntCoerce(qty) IN
    IF c.exc \in {"TypeError", "ValueError"} THEN Ret(sd, "none")
    ELSE IF c.exc # "none" THEN Ret(sd, c.exc)
    ELSE IF c.v <= 0 THEN Ret(sd, "none")
    ELSE IF sd.kind = "list" THEN Ret(sd, "none")
    ELSE IF ~HasKey(sd.items, item.name) THEN Ret(sd, "none")
    ELSE LET current_qty == ValueOf(sd.items, item.name) IN
      IF current_qty.t # "int" THEN Ret(sd, "none")
      ELSE LET qty_removed == c.v
               remaining == current_qty.n - qty_removed
           IN IF remaining = 0
              THEN Ret([sd EXCEPT !.items = DelKey(sd.items, item.name)], "none")
              ELSE Ret([sd EXCEPT !.items =
                          SetKey(sd.items, item.name, IntV(remaining))], "none")

RemoveItemClearAll(sd, item, qty) ==
  IF ~item.str \/ item.name = "" THEN Ret(sd, "none")
  ELSE LET c == IntCoerce(qty) IN
    IF c.exc \in {"TypeError", "ValueError"} THEN Ret(sd, "none")
    ELSE IF c.exc # "none" THEN Ret(sd, c.exc)
    ELSE IF c.v <= 0 THEN Ret(sd, "none")
    ELSE IF sd.kind = "list" THEN Ret(sd, "none")
    ELSE IF ~HasKey(sd.items, item.name) THEN Ret(sd, "none")
    ELSE LET current_qty == ValueOf(sd.items, item.name) IN
      IF current_qty.t # "int" THEN Ret(sd, "none")
      ELSE LET qty_removed == Min(c.v, current_qty.n)
               remaining == current_qty.n - qty_removed
           IN IF remaining = 0
              THEN Ret([sd EXCEPT !.items = <<>>], "none")
              ELSE Ret([sd EXCEPT !.items =
                          SetKey(sd.items, item.name, IntV(remaining))], "none")

\* remove_item.  Everything raised inside the second try is caught (KeyError
\* at line 130, the rest at line 132); an OverflowError of int(qty) is not.
RemoveItem(sd, item, qty) ==
  IF ~item.str \/ item.name = "" THEN Ret(sd, "none")
  ELSE LET c == IntCoerce(qty) IN
    IF c.exc \in {"TypeError", "ValueError"} THEN Ret(sd, "none")
    ELSE IF c.exc # "none" THEN Ret(sd, c.exc)
    ELSE IF c.v <= 0 THEN Ret(sd, "none")
    ELSE IF sd.kind = "list" THEN Ret(sd, "none")
    ELSE IF ~HasKey(sd.items, item.name) THEN Ret(sd, "none")
    ELSE LET current_qty == ValueOf(sd.items, item.name) IN
      IF current_qty.t # "int" THEN Ret(sd, "none")
      ELSE LET qty_removed == Min(c.v, current_qty.n)
               remaining == current_qty.n - qty_removed
           IN IF remaining = 0
              THEN Ret([sd EXCEPT !.items = DelKey(sd.items, item.name)], "none")
              ELSE Ret([sd EXCEPT !.items =
                          SetKey(sd.items, item.name, IntV(remaining))], "none")

AddItemNoAbs(sd, item, qty) ==
  IF ~item.str \/ item.name = "" THEN Ret(sd, "none")
  ELSE LET c == IntCoerce(qty) IN
    IF c.exc \in {"TypeError", "ValueError"} THEN Ret(sd, "none")
    ELSE IF c.exc # "none" THEN Ret(sd, c.exc)
    ELSE IF c.v < 0 THEN RemoveItem(sd, item, IntV(c.v))
    ELSE IF c.v = 0 THEN Ret(sd, "none")
    ELSE IF sd.kind = "list" THEN Ret(sd, "AttributeError")
    ELSE LET old == IF HasKey(sd.items, item.name)
                    THEN ValueOf(sd.items, item.name) ELSE IntV(0)
         IN IF old.t # "int" THEN Ret(sd, "TypeError")
            ELSE Ret([sd EXCEPT !.items =
                        SetKey(sd.items, item.name, IntV(old.n + c.v))], "none")

AddItemOverwrite(sd, item, qty) ==
  IF ~item.str \/ item.name = "" THEN Ret(sd, "none")
  ELSE LET c == IntCoerce(qty) IN
    IF c.exc \in {"TypeError", "ValueError"} THEN Ret(sd, "none")
    ELSE IF c.exc # "none" THEN Ret(sd, c.exc)
    ELSE IF c.v < 0 THEN RemoveItem(sd, item, IntV(0 - c.v))
    ELSE IF c.v = 0 THEN Ret(sd, "none")
    ELSE IF sd.kind = "list" THEN Ret(sd, "AttributeError")
    ELSE LET old == IF HasKey(sd.items, item.name)
                    THEN ValueOf(sd.items, item.name) ELSE IntV(0)
         IN IF old.t # "int" THEN Ret(sd, "TypeError")
            ELSE Ret([sd EXCEPT !.items =
                        SetKey(sd.items, item.name, IntV(c.v))], "none")

\* add_item.  Line 87 is outside any try: stock_data.get on a non-dict and
\* text + int raise to the caller, as does an OverflowError of int(qty).
AddItem(sd, item, qty) ==
  IF ~item.str \/ item.name = "" THEN Ret(sd, "none")
  ELSE LET c == IntCoerce(qty) IN
    IF c.exc \in {"TypeError", "ValueError"} THEN Ret(sd, "none")
    ELSE IF c.exc # "none" THEN Ret(sd, c.exc)
    ELSE IF c.v < 0 THEN RemoveItem(sd, item, IntV(0 - c.v))
    ELSE IF c.v = 0 THEN Ret(sd, "none")
    ELSE IF sd.kind = "list" THEN Ret(sd, "AttributeError")
    ELSE LET old == IF HasKey(sd.items, item.name)
                    THEN ValueOf(sd.items, item.name) ELSE IntV(0)
         IN IF old.t # "int" THEN Ret(sd, "TypeError")
            ELSE Ret([sd EXCEPT !.items =
                        SetKey(sd.items, item.name, IntV(old.n + c.v))], "none")

\* get_qty: stock_data.get(item, 0)
GetQty(sd, item) ==
  IF sd.kind = "list" THEN [raised |-> "AttributeError", qty |-> IntV(0)]
  ELSE IF item.str /\ HasKey(sd.items, item.name)
       THEN [raised |-> "none", qty |-> ValueOf(sd.items, item.name)]
       ELSE [raised |-> "none", qty |-> IntV(0)]

\* check_low_items: the list comprehension, in dict order; text < int raises
CheckLowItems(sd, threshold) ==
  IF sd.kind = "list" THEN [raised |-> "AttributeError", low |-> <<>>]
  ELSE IF \E i \in 1..Len(sd.items) : sd.items[i].v.t # "int"
       THEN [raised |-> "TypeError", low |-> <<>>]
       ELSE LET lows == SelectSeq(sd.items, LAMBDA e : e.v.n < threshold)
            IN [raised |-> "none",
                low |-> [i \in 1..Len(lows) |-> lows[i].k]]

KeyRank(k) == IF k = "apple" THEN 1 ELSE 2

RECURSIVE Insert(_, _)
Insert(e, sorted) ==
  IF sorted = <<>> THEN <<e>>
  ELSE IF KeyRank(e.k) <= KeyRank(Head(sorted).k) THEN <<e>> \o sorted
  ELSE <<Head(sorted)>> \o Insert(e, Tail(sorted))

RECURSIVE Sorted(_)
Sorted(items) ==
  IF items = <<>> THEN <<>> ELSE Insert(Head(items), Sorted(Tail(items)))

\* print_data: the rows printed, sorted by item name (the padding of the
\* name column is not modelled).  The loaded array is non-empty, so
\* len(i) of its element raises.
PrintData(sd) ==
  IF sd.kind = "list" THEN [raised |-> "TypeError", rows |-> <<>>]
  ELSE [raised |-> "none", rows |-> Sorted(sd.items)]

\* ---------------------------------------------------------------- state

VARIABLES
  stock_data,  \* the module-level dict
  file,        \* the content of INVENTORY_FILE
  prev,        \* stock_data before the last call
  last,        \* the last call and its arguments
  result,      \* what the last call returned or raised
  rt,          \* a save_data .. load_data sequence under way
  pair         \* an add_item; add_item sequence on an absent item under way

vars == <<stock_data, file, prev, last, result, rt, pair>>

NoItem == ItemArg("")

Call(op, item, qty, thr, io) ==
  [op |-> op, item |-> item, qty |-> qty, thr |-> thr, io |-> io]

NoResult == [raised |-> "none", qty |-> IntV(0), low |-> <<>>, rows |-> <<>>]

Raised(exc) == [NoResult EXCEPT !.raised = exc]

NoRT == [stage |-> "off", sd |-> EmptyDict, sio |-> "ok", lio |-> "ok"]

NoPair == [stage |-> 0, name |-> "", q1 |-> 0, q2 |-> 0]

\* every stored int stays within the cap
WithinCap(sd) ==
  \A i \in 1..Len(sd.items) :
    sd.items[i].v.t = "int" => sd.items[i].v.n <= MaxQty

NonNegInt(qty) == qty.t = "int" /\ qty.n >= 0

ValidItem(item) == item.str /\ item.name # ""

Init ==
  /\ stock_data = EmptyDict
  /\ file \in InitFiles
  /\ prev = EmptyDict
  /\ last = Call("init", NoItem, IntV(0), 0, "ok")
  /\ result = NoResult
  /\ rt = NoRT
  /\ pair = NoPair

\* -------------------------------------------------------------- actions

LoadDataAct ==
  \E io \in {"ok", "fail"} :
    /\ stock_data' = LoadData(stock_data, file, io)
    /\ prev' = stock_data
    /\ last' = Call("load_data", NoItem, IntV(0), 0, io)
    /\ result' = NoResult
    /\ rt' = IF rt.stage = "saved"
             THEN [rt EXCEPT !.stage = "loaded", !.lio = io] ELSE NoRT
    /\ pair' = NoPair
    /\ UNCHANGED file

SaveDataAct ==
  \E io \in {"ok", "open_fail", "write_fail"} :
    /\ file' = SaveData(stock_data, file, io)
    /\ prev' = stock_data
    /\ last' = Call("save_data", NoItem, IntV(0), 0, io)
    /\ result' = NoResult
    /\ rt' = [stage |-> "saved", sd |-> stock_data, sio |-> io, lio |-> "ok"]
    /\ pair' = NoPair
    /\ UNCHANGED stock_data

\* main's "stock_data = {}" between save_data and load_data
ClearAct ==
  /\ rt.stage = "saved"
  /\ last.op = "save_data"
  /\ stock_data' = EmptyDict
  /\ prev' = stock_data
  /\ last' = Call("clear", NoItem, IntV(0), 0, "ok")
  /\ result' = NoResult
  /\ pair' = NoPair
  /\ UNCHANGED <<file, rt>>

AddItemAct ==
  \E item \in ItemArgs, qty \in QtyArgs :
    LET r == AddItem(stock_data, item, qty) IN
    /\ WithinCap(r.sd)
    /\ stock_data' = r.sd
    /\ prev' = stock_data
    /\ last' = Call("add_item", item, qty, 0, "ok")
    /\ result' = Raised(r.raised)
    /\ rt' = NoRT
    /\ pair' =
         IF /\ pair.stage = 1
            /\ ValidItem(item) /\ item.name = pair.name /\ NonNegInt(qty)
         THEN [pair EXCEPT !.stage = 2, !.q2 = qty.n]
         ELSE IF /\ ValidItem(item) /\ NonNegInt(qty)
                 /\ stock_data.kind = "dict"
                 /\ ~HasKey(stock_data.items, item.name)
              THEN [stage |-> 1, name |-> item.name, q1 |-> qty.n, q2 |-> 0]
              ELSE NoPair
    /\ UNCHANGED file

RemoveItemAct ==
  \E item \in ItemArgs, qty \in QtyArgs :
    LET r == RemoveItem(stock_data, item, qty) IN
    /\ stock_data' = r.sd
    /\ prev' = stock_data
    /\ last' = Call("remove_item", item, qty, 0, "ok")
    /\ result' = Raised(r.raised)
    /\ rt' = NoRT
    /\ pair' = NoPair
    /\ UNCHANGED file

GetQtyAct ==
  \E item \in ItemArgs :
    LET r == GetQty(stock_data, item) IN
    /\ prev' = stock_data
    /\ last' = Call("get_qty", item, IntV(0), 0, "ok")
    /\ result' = [NoResult EXCEPT !.raised = r.raised, !.qty = r.qty]
    /\ rt' = NoRT
    /\ pair' = NoPair
    /\ UNCHANGED <<stock_data, file>>

CheckLowItemsAct ==
  \E threshold \in Thresholds :
    LET r == CheckLowItems(stock_data, threshold) IN
    /\ prev' = stock_data
    /\ last' = Call("check_low_items", NoItem, IntV(0), threshold, "ok")
    /\ result' = [NoResult EXCEPT !.raised = r.raised, !.low = r.low]
    /\ rt' = NoRT
    /\ pair' = NoPair
    /\ UNCHANGED <<stock_data, file>>

PrintDataAct ==
  LET r == PrintData(stock_data) IN
  /\ prev' = stock_data
  /\ last' = Call("print_data", NoItem, IntV(0), 0, "ok")
  /\ result' = [NoResult EXCEPT !.raised = r.raised, !.rows = r.rows]
  /\ rt' = NoRT
  /\ pair' = NoPair
  /\ UNCHANGED <<stock_data, file>>

Next ==
  \/ LoadDataAct
  \/ SaveDataAct
  \/ ClearAct
  \/ AddItemAct
  \/ RemoveItemAct
  \/ GetQtyAct
  \/ CheckLowItemsAct
  \/ PrintDataAct

Spec == Init /\ [][Next]_vars

TypeOK ==
  /\ stock_data.kind \in {"dict", "list"}
  /\ file.st \in {"missing", "corrupt", "ok"}
  /\ result.raised \in {"none", "TypeError", "AttributeError", "OverflowError"}

\* --------------------------------------------------------------- claims

Max(a, b) == IF a > b THEN a ELSE b

\* a dict whose every value is a strictly positive int
PositiveDict(sd) ==
  /\ sd.kind = "dict"
  /\ \A i \in 1..Len(sd.items) :
       sd.items[i].v.t = "int" /\ sd.items[i].v.n > 0

\* the int quantity an item holds in a dict, 0 when absent
QtyIn(sd, name) ==
  IF HasKey(sd.items, name) THEN ValueOf(sd.items, name).n ELSE 0

\* the item is absent from the dict or maps to an int
HoldsInt(sd, name) ==
  /\ sd.kind = "dict"
  /\ HasKey(sd.items, name) => ValueOf(sd.items, name).t = "int"

\* presence and value of a key
Entry(sd, k) ==
  IF sd.kind = "dict" /\ HasKey(sd.items, k)
  THEN [present |-> TRUE, v |-> ValueOf(sd.items, k)]
  ELSE [present |-> FALSE, v |-> IntV(0)]

\* C1: in every reachable state every key of stock_data maps to a strictly
\* positive integer (stated as claimed; load_data breaks it).
C1_AllPositive == PositiveDict(stock_data)

\* C2: after remove_item(item, R) with a valid item holding the int quantity
\* Q (0 when absent) and an integer R > 0, get_qty(item) is max(0, Q - R)
\* and the item is absent as a key exactly when that is 0.
C2_RemoveClamps ==
  (/\ last.op = "remove_item"
   /\ ValidItem(last.item)
   /\ last.qty.t \in {"int", "intstr"} /\ last.qty.n > 0
   /\ HoldsInt(prev, last.item.name))
  => LET Q == QtyIn(prev, last.item.name)
         R == last.qty.n
         g == GetQty(stock_data, last.item)
     IN /\ result.raised = "none"
        /\ g.raised = "none"
        /\ g.qty = IntV(Max(0, Q - R))
        /\ g.qty.n >= 0
        /\ (~HasKey(stock_data.items, last.item.name)) <=> (Max(0, Q - R) = 0)

\* C2 witness: a removal of more than the item holds empties the entry.
C2_Witness ==
  /\ last.op = "remove_item"
  /\ ValidItem(last.item)
  /\ last.qty.t = "int"
  /\ prev.kind = "dict"
  /\ HasKey(prev.items, last.item.name)
  /\ ValueOf(prev.items, last.item.name).t = "int"
  /\ ValueOf(prev.items, last.item.name).n > 0
  /\ last.qty.n > ValueOf(prev.items, last.item.name).n
  /\ ~HasKey(stock_data.items, last.item.name)

\* C3: add_item(item, -N) with N > 0 leaves exactly the mapping (and the
\* outcome) that remove_item(item, N) produces from the same start.
C3_AddNegativeIsRemove ==
  (last.op = "add_item" /\ last.qty.t = "int" /\ last.qty.n < 0)
  => LET r == RemoveItem(prev, last.item, IntV(0 - last.qty.n))
     IN stock_data = r.sd /\ result.raised = r.raised

\* C3 witness: a negative add that took stock away.
C3_Witness ==
  /\ last.op = "add_item"
  /\ last.qty.t = "int" /\ last.qty.n < 0
  /\ ValidItem(last.item)
  /\ prev.kind = "dict"
  /\ HasKey(prev.items, last.item.name)
  /\ stock_data # prev

C5_NeverRaises == result.raised = "none"

\* C6: load_data on a missing file, on invalid JSON or with any other I/O
\* failure leaves stock_data empty and returns normally.
C6_LoadFailureGivesEmpty ==
  (/\ last.op = "load_data"
   /\ (file.st \in {"missing", "corrupt"} \/ last.io = "fail"))
  => stock_data = EmptyDict /\ result.raised = "none"

\* C6 witness: a non-empty mapping replaced by {} on loading invalid JSON.
C6_Witness ==
  /\ last.op = "load_data"
  /\ file.st = "corrupt"
  /\ last.io = "ok"
  /\ prev.kind = "dict" /\ Len(prev.items) > 0
  /\ stock_data = EmptyDict

\* C7: add_item and remove_item with a fractional or non-numeric quantity
\* leave the mapping as it was (stated as claimed).
C7_NonIntegerRejected ==
  (/\ last.op \in {"add_item", "remove_item"}
   /\ last.qty.t \in {"float", "text", "none"})
  => stock_data = prev

\* C8: from a mapping where a valid item is absent, add_item(item, q1) then
\* add_item(item, q2) with non-negative ints gives get_qty(item) = q1 + q2,
\* and an add of 0 changes nothing.
C8_AddsSum ==
  (pair.stage = 2)
  => LET g == GetQty(stock_data, ItemArg(pair.name))
     IN /\ result.raised = "none"
        /\ g.raised = "none"
        /\ g.qty = IntV(pair.q1 + pair.q2)
        /\ (pair.q2 = 0 => stock_data = prev)
        /\ HasKey(stock_data.items, pair.name) <=> (pair.q1 + pair.q2 > 0)

\* C8 witness: two positive adds on an item that was absent.
C8_Witness ==
  /\ pair.stage = 2
  /\ pair.q1 > 0 /\ pair.q2 > 0
  /\ HasKey(stock_data.items, pair.name)
  /\ ValueOf(stock_data.items, pair.name) = IntV(pair.q1 + pair.q2)

\* C9: on every mapping check_low_items(threshold) returns exactly the keys
\* whose quantity is below threshold, nothing on the empty mapping, and
\* changes nothing (stated as claimed).
C9_LowItemsExact ==
  (last.op = "check_low_items" /\ prev.kind = "dict")
  => /\ result.raised = "none"
     /\ {result.low[i] : i \in 1..Len(result.low)}
          = {k \in Keys : /\ HasKey(prev.items, k)
                          /\ ValueOf(prev.items, k).t = "int"
                          /\ ValueOf(prev.items, k).n < last.thr}
     /\ (prev.items = <<>> => result.low = <<>>)
     /\ stock_data = prev

\* C10: add_item and remove_item leave every key other than their item as it
\* was; save_data, get_qty, check_low_items and print_data leave the whole
\* mapping as it was.
C10_Frame ==
  /\ (last.op \in {"add_item", "remove_item"})
       => /\ stock_data.kind = prev.kind
          /\ \A k \in Keys :
               (~(last.item.str /\ last.item.name = k))
                 => Entry(stock_data, k) = Entry(prev, k)
  /\ (last.op \in {"save_data", "get_qty", "check_low_items", "print_data"})
       => stock_data = prev

\* C10 witness: a removal that emptied one entry while another one stayed.
C10_Witness ==
  /\ last.op = "remove_item"
  /\ ValidItem(last.item)
  /\ prev.kind = "dict"
  /\ HasKey(prev.items, last.item.name)
  /\ ~HasKey(stock_data.items, last.item.name)
  /\ \E k \in Keys : k # last.item.name /\ HasKey(stock_data.items, k)

====
